---- MODULE Spec2Model ----
(***************************************************************************)
(* college-picker: the life-path simulation of                             *)
(* src/app/api/colleges/alternatives/route.ts (generateLifePath) and the   *)
(* professional-path simulation of src/app/api/colleges/outcomes/route.ts  *)
(* (POST), each stepped one simulated year per action; further the         *)
(* life-path endpoint with its career cache, the career classifier, the    *)
(* search endpoint and the comparison page, each in a section of its own.  *)
(*                                                                         *)
(* Numbers.  The code computes in IEEE doubles.  Here an amount of money   *)
(* is an integer number of cents, every product with a decimal factor is   *)
(* rounded to the nearest cent, and Math.round is Round below (to whole    *)
(* dollars, halves upward, as floor(x + 0.5)).  The snapshot fields the    *)
(* code rounds (debt, netWorth, earnings, the summary figures) are whole   *)
(* dollars; the running values (cumulativeDebt, accumulatedSavings, ...)   *)
(* are cents.                                                              *)
(*                                                                         *)
(* The free-text description of a snapshot is left out: no number is       *)
(* derived from it.                                                        *)
(***************************************************************************)
EXTENDS Integers, Sequences, FiniteSets, TLC

VARIABLES
    \* ---- generateLifePath --------------------------------------------
    college,            \* CollegeInput: state and the cost fields getStickerPrice reads
    profile,            \* StudentProfile
    careerData,         \* CareerData: the numeric fields the timeline reads
    aid,                \* college.cost.netPriceByIncome[bracket], avgNetPrice (read by the summary)
    advisory,           \* careerData.title, careerData.notes, matchedMajor (read by the summary)
    pc,                 \* position in generateLifePath
    year,               \* loop counter of the running for-loop
    cumulativeDebt,     \* cents
    cumulativeEarnings, \* cents
    accumulatedSavings, \* cents
    peakDebt,           \* cents
    breakEvenAge,       \* Null or an age
    timeline,           \* sequence of LifePathYear
    summary,            \* None until the function returns
    \* ---- outcomes POST -----------------------------------------------
    oRequest,           \* OutcomeRequest
    oPc,                \* position in POST
    oYear,              \* loop counter
    cumulativeTuition,  \* cents
    debtWithInterest,   \* cents
    totalEarnings,      \* cents
    totalLoanPaid,      \* cents
    remainingDebt,      \* cents
    breakEvenYear,      \* Null or a year
    oTimeline,          \* sequence of TimelineYear
    oResponse,          \* None until POST returns
    \* ---- life-path POST and getCareerDataFromAI -----------------------
    careerDataCache,    \* the Map: cache key -> CareerData, None where the key is absent
    requests,           \* the requests of the process: request -> position and locals
    \* ---- matchCareerFromText ------------------------------------------
    goalText,           \* the text, lower-cased and trimmed, as its sequence of words
    category,           \* Undefined until the function returns
    \* ---- search GET ---------------------------------------------------
    search,             \* the request: position, parameters, rows, response
    \* ---- getCareerDataFromAI, two calls -------------------------------
    lookups,            \* the calls, the cache, and the profile each call returned
    \* ---- comparison page ----------------------------------------------
    page                \* selectedColleges, lifePaths, pathsLoading, requests in flight

lifeVars == <<college, profile, careerData, aid, advisory, pc, year, cumulativeDebt,
              cumulativeEarnings, accumulatedSavings, peakDebt, breakEvenAge,
              timeline, summary>>

outcomeVars == <<oRequest, oPc, oYear, cumulativeTuition, debtWithInterest,
                 totalEarnings, totalLoanPaid, remainingDebt, breakEvenYear,
                 oTimeline, oResponse>>

endpointVars == <<careerDataCache, requests>>

classifierVars == <<goalText, category>>

\* what the simulations and the life-path endpoint never touch
searchVars == <<search>>

lookupVars == <<lookups>>

pageVars == <<page>>

otherVars == <<classifierVars, searchVars, lookupVars, pageVars>>

vars == <<lifeVars, outcomeVars, endpointVars, otherVars>>

\* null where a number is expected: no amount, age or year of the model has this value
Null == -1000000000
\* null or undefined where a string is expected
Undefined == "undefined"
\* null where an object is expected
None == [none |-> TRUE]
\* a request field not yet read
Unread == [unread |-> TRUE]

-----------------------------------------------------------------------------
(* Arithmetic                                                              *)

Max(a, b) == IF a >= b THEN a ELSE b
Min(a, b) == IF a <= b THEN a ELSE b

\* dollars -> cents
Cents(d) == d * 100

\* Math.round of an amount in cents, in dollars: floor(x + 0.5)
Round(c) == (c + 50) \div 100

\* c * n / d to the nearest cent
MulFrac(c, n, d) == (c * n + d \div 2) \div d

-----------------------------------------------------------------------------
(* generateLifePath: constants of the code                                 *)

UndergradYears == 4
HorizonYears == 17
DefaultAge == 18
GradStartAge == 22
DefaultTuitionInState == 15000
DefaultTuitionOutOfState == 30000
DefaultRoomBoard == 15000
ResidencyPayment == 5000

(* Bounds of the inputs                                                    *)

MaxGradSchoolYears == 8
MaxResidencyYears == 7

(* Inputs.  Money is in dollars, as the request and the provider give it.  *)

Colleges ==
    [state : {"NV"},
     tuitionInState : {Null, 0, 8000},
     tuitionOutOfState : {Null, 50000},
     roomBoardOnCampus : {Null, 0}]

Profiles ==
    [homeState : {"nv", "CA"},
     hasScholarships : BOOLEAN,
     scholarshipAmount : {20000, 500000},
     currentAge : {Null, 14, 99}]

\* hasScholarships = FALSE makes scholarshipAmount unread: one amount stands for it
ProfilesRead == {p \in Profiles : p.hasScholarships \/ p.scholarshipAmount = 20000}

CareerDatas ==
    [medianSalary : {45000},
     salaryLow : {35000},
     salaryHigh : {60000},
     requiresGradSchool : BOOLEAN,
     gradSchoolYears : {0, 2, MaxGradSchoolYears},
     gradCostPerYear : {50000},
     residencyYears : {0, 3, MaxResidencyYears},
     residencySalary : {0, 60000}]

Aids == [netPriceByIncome : {Null, 0, 8000}, avgNetPrice : {Null, 12000}]

Titles == {"Neurosurgeon", "Technician"}
\* the titles t with t.toLowerCase() containing "surgeon", "physician" or "doctor"
MedicalTitles == {"Neurosurgeon"}

Advisories ==
    [title : Titles,
     notes : {Undefined, "Licence required"},
     matchedMajor : {"health_premed", "biology", "arts", "humanities", "undecided"}]

-----------------------------------------------------------------------------
(* generateLifePath: the values computed before the timeline               *)

\* String.prototype.toUpperCase on the state codes of the model
toUpperCase(s) == CASE s = "nv" -> "NV" [] s = "ca" -> "CA" [] OTHER -> s

\* a ?? b
Coalesce(a, b) == IF a # Null THEN a ELSE b

\* the applicable tuition field or its default, without the other field in between
getStickerPrice_ownFieldOnly(c, inState, includeRoomBoard) ==
    LET tuition == IF inState
                   THEN Coalesce(c.tuitionInState, DefaultTuitionInState)
                   ELSE Coalesce(c.tuitionOutOfState, DefaultTuitionOutOfState)
        roomBoard == IF includeRoomBoard
                     THEN Coalesce(c.roomBoardOnCampus, DefaultRoomBoard)
                     ELSE 0
    IN  tuition + roomBoard
getStickerPrice(c, inState, includeRoomBoard) ==
    LET tuition == IF inState
                   THEN Coalesce(c.tuitionInState,
                                 Coalesce(c.tuitionOutOfState, DefaultTuitionInState))
                   ELSE Coalesce(c.tuitionOutOfState,
                                 Coalesce(c.tuitionInState, DefaultTuitionOutOfState))
        roomBoard == IF includeRoomBoard
                     THEN Coalesce(c.roomBoardOnCampus, DefaultRoomBoard)
                     ELSE 0
    IN  tuition + roomBoard

getAidAdjustedPrice(a) == Coalesce(a.netPriceByIncome, Coalesce(a.avgNetPrice, Null))

isInState == toUpperCase(profile.homeState) = toUpperCase(college.state)

stickerPriceWithRB == getStickerPrice(college, isInState, TRUE)
stickerPriceTuitionOnly == getStickerPrice(college, isInState, FALSE)

undergradCostWithRB == stickerPriceWithRB * 4
undergradCostTuitionOnly == stickerPriceTuitionOnly * 4

scholarshipOffset == IF profile.hasScholarships THEN profile.scholarshipAmount ELSE 0
adjustedUndergradCost == Max(0, undergradCostWithRB - scholarshipOffset)

\* dollars
undergradDebt == Round(MulFrac(Cents(adjustedUndergradCost), 3, 5))
gradDebt == careerData.gradCostPerYear * careerData.gradSchoolYears
totalDebt == undergradDebt + gradDebt

\* profile.currentAge || 18
startAge == IF profile.currentAge = Null \/ profile.currentAge = 0
            THEN DefaultAge ELSE profile.currentAge
projectionEndAge == startAge + HorizonYears

careerStartAge ==
    startAge + UndergradYears + careerData.gradSchoolYears + careerData.residencyYears
yearsToShow == projectionEndAge - careerStartAge + 1

\* the conditions under which each loop is entered
hasGradSchool == careerData.requiresGradSchool /\ careerData.gradSchoolYears > 0
hasResidency == careerData.residencyYears > 0 /\ careerData.residencySalary > 0

\* where control goes after the last pass of each loop
afterResidency == IF yearsToShow >= 1 THEN "career" ELSE "summary"
afterGradSchool == IF hasResidency THEN "residency" ELSE afterResidency
afterUndergrad == IF hasGradSchool THEN "grad" ELSE afterGradSchool

\* a base taken above the top of the band
base_aboveHigh ==
    Cents(careerData.salaryHigh)
    + MulFrac(Cents(careerData.salaryHigh) - Cents(careerData.medianSalary), 3, 5)
\* const base = medianSalary + (salaryHigh - medianSalary) * 0.6, in cents
base ==
    Cents(careerData.medianSalary)
    + MulFrac(Cents(careerData.salaryHigh) - Cents(careerData.medianSalary), 3, 5)

\* the curve without the factor 0.5 of the first two years: the median at year 2
currentSalary_medianAtTwo(careerYear) ==
    LET yearsExperience == careerYear - 1
        low9 == MulFrac(Cents(careerData.salaryLow), 9, 10)
        median == Cents(careerData.medianSalary)
        high == Cents(careerData.salaryHigh)
    IN  IF yearsExperience <= 0 THEN Round(low9)
        ELSE IF yearsExperience <= 2
             THEN Round(low9 + MulFrac(median - low9, yearsExperience, 2))
        ELSE IF yearsExperience <= 5 THEN Round(median)
        ELSE IF yearsExperience <= 10
             THEN Round(median + MulFrac(high - median, 3 * (yearsExperience - 5), 25))
        ELSE Round(base + MulFrac(high - base, Min(yearsExperience - 10, 10), 20))
\* the salary of a career year, in dollars
currentSalary(careerYear) ==
    LET yearsExperience == careerYear - 1
        low9 == MulFrac(Cents(careerData.salaryLow), 9, 10)
        median == Cents(careerData.medianSalary)
        high == Cents(careerData.salaryHigh)
        startSalary == low9 + MulFrac(median - low9, 1, 2)
    IN  IF yearsExperience <= 0 THEN Round(low9)
        ELSE IF yearsExperience <= 2
             THEN Round(low9 + MulFrac(median - low9, yearsExperience, 4))
        ELSE IF yearsExperience <= 5
             THEN Round(startSalary + MulFrac(median - startSalary, yearsExperience - 2, 3))
        ELSE IF yearsExperience <= 10
             THEN Round(median + MulFrac(high - median, 3 * (yearsExperience - 5), 25))
        ELSE Round(base + MulFrac(high - base, Min(yearsExperience - 10, 10), 20))

\* what an undergraduate year adds to the debt, in cents: stickerPriceWithRB * 0.6
financedPerYear_full == Cents(stickerPriceWithRB)
financedPerYear == MulFrac(Cents(stickerPriceWithRB), 3, 5)

LifePathYear(y, a, ph, e, d, nw) ==
    [year |-> y, age |-> a, phase |-> ph, earnings |-> e, debt |-> d, netWorth |-> nw]

-----------------------------------------------------------------------------
(* generateLifePath: one action per pass of each loop, and the return      *)

LifeIdle ==
    /\ college = None /\ profile = None /\ careerData = None
    /\ aid = Unread /\ advisory = Unread
    /\ pc = "idle" /\ year = 0
    /\ cumulativeDebt = 0 /\ cumulativeEarnings = 0 /\ accumulatedSavings = 0
    /\ peakDebt = 0 /\ breakEvenAge = Null
    /\ timeline = <<>> /\ summary = None

\* the call: the locals as initialised before the first loop
InitLife ==
    /\ college \in Colleges
    /\ profile \in ProfilesRead
    /\ careerData \in CareerDatas
    /\ aid = Unread /\ advisory = Unread
    /\ pc = "undergrad" /\ year = 1
    /\ cumulativeDebt = 0 /\ cumulativeEarnings = 0 /\ accumulatedSavings = 0
    /\ peakDebt = 0 /\ breakEvenAge = Null
    /\ timeline = <<>> /\ summary = None

lifeInputs == <<college, profile, careerData, aid, advisory>>

\* the undergrad loop with the whole financed amount added in the last year only
UndergradYear_atGraduation ==
    /\ pc = "undergrad"
    /\ LET age == startAge + year - 1
           debt == IF year < UndergradYears THEN cumulativeDebt
                   ELSE cumulativeDebt + UndergradYears * financedPerYear
       IN  /\ cumulativeDebt' = debt
           /\ peakDebt' = Max(peakDebt, debt)
           /\ timeline' = Append(timeline,
                 LifePathYear(year, age, "College", Null, Round(debt), -Round(debt)))
    /\ IF year < UndergradYears
       THEN pc' = pc /\ year' = year + 1
       ELSE pc' = afterUndergrad /\ year' = 1
    /\ UNCHANGED <<lifeInputs, cumulativeEarnings, accumulatedSavings, breakEvenAge,
                   summary, outcomeVars, endpointVars,
                   otherVars>>

\* for (let year = 1; year <= 4; year++)
UndergradYear ==
    /\ pc = "undergrad"
    /\ LET age == startAge + year - 1
           debt == cumulativeDebt + financedPerYear
       IN  /\ cumulativeDebt' = debt
           /\ peakDebt' = Max(peakDebt, debt)
           /\ timeline' = Append(timeline,
                 LifePathYear(year, age, "College", Null, Round(debt), -Round(debt)))
    /\ IF year < UndergradYears
       THEN pc' = pc /\ year' = year + 1
       ELSE pc' = afterUndergrad /\ year' = 1
    /\ UNCHANGED <<lifeInputs, cumulativeEarnings, accumulatedSavings, breakEvenAge,
                   summary, outcomeVars, endpointVars,
                   otherVars>>

\* for (let year = 1; year <= careerData.gradSchoolYears; year++)
GradSchoolYear ==
    /\ pc = "grad"
    /\ LET age == GradStartAge + year - 1
           yearNum == UndergradYears + year
           debt == cumulativeDebt + Cents(careerData.gradCostPerYear)
       IN  /\ cumulativeDebt' = debt
           /\ peakDebt' = Max(peakDebt, debt)
           /\ timeline' = Append(timeline,
                 LifePathYear(yearNum, age, "Grad School", Null, Round(debt), Round(-debt)))
    /\ IF year < careerData.gradSchoolYears
       THEN pc' = pc /\ year' = year + 1
       ELSE pc' = afterGradSchool /\ year' = 1
    /\ UNCHANGED <<lifeInputs, cumulativeEarnings, accumulatedSavings, breakEvenAge,
                   summary, outcomeVars, endpointVars,
                   otherVars>>

\* for (let year = 1; year <= careerData.residencyYears; year++)
ResidencyYear ==
    /\ pc = "residency"
    /\ LET gradSchoolEndAge == GradStartAge + careerData.gradSchoolYears
           age == gradSchoolEndAge + year - 1
           yearNum == UndergradYears + careerData.gradSchoolYears + year
           earned == cumulativeEarnings + Cents(careerData.residencySalary)
           debt == cumulativeDebt + MulFrac(cumulativeDebt, 1, 20) - Cents(ResidencyPayment)
       IN  /\ cumulativeEarnings' = earned
           /\ cumulativeDebt' = debt
           /\ timeline' = Append(timeline,
                 LifePathYear(yearNum, age, "Residency", careerData.residencySalary,
                              Round(Max(0, debt)), Round(earned - Max(0, debt))))
    /\ IF year < careerData.residencyYears
       THEN pc' = pc /\ year' = year + 1
       ELSE pc' = afterResidency /\ year' = 1
    /\ UNCHANGED <<lifeInputs, accumulatedSavings, peakDebt, breakEvenAge,
                   summary, outcomeVars, endpointVars,
                   otherVars>>

\* for (let careerYear = 1; careerYear <= yearsToShow; careerYear++)
CareerYear ==
    /\ pc = "career"
    /\ LET careerYear == year
           age == careerStartAge + careerYear - 1
           \* currentYearNum = timeline.length, taken before the loop
           currentYearNum == Len(timeline) - (careerYear - 1)
           yearNum == currentYearNum + careerYear
           salary == currentSalary(careerYear)
           annualPayment == IF totalDebt > 0
                            THEN Min(MulFrac(Cents(totalDebt), 3, 20), cumulativeDebt)
                            ELSE 0
           debt == Max(0, cumulativeDebt + MulFrac(cumulativeDebt, 1, 20) - annualPayment)
           annualSavings == Max(0, MulFrac(Cents(salary), 3, 20) - annualPayment)
           savings == accumulatedSavings + MulFrac(accumulatedSavings, 7, 100) + annualSavings
           netWorth == savings - debt
       IN  IF age > projectionEndAge
           THEN \* break
                /\ pc' = "summary"
                /\ UNCHANGED <<year, cumulativeDebt, accumulatedSavings, breakEvenAge, timeline>>
           ELSE /\ cumulativeDebt' = debt
                /\ accumulatedSavings' = savings
                /\ breakEvenAge' = IF breakEvenAge = Null /\ netWorth > 0
                                   THEN age ELSE breakEvenAge
                /\ timeline' = Append(timeline,
                      LifePathYear(yearNum, age, "Career", salary,
                                   Round(Max(0, debt)), Round(netWorth)))
                /\ IF careerYear < yearsToShow
                   THEN pc' = pc /\ year' = year + 1
                   ELSE pc' = "summary" /\ year' = year
    /\ UNCHANGED <<lifeInputs, cumulativeEarnings, peakDebt, summary, outcomeVars, endpointVars,
                   otherVars>>

\* the same warnings with the debt ratio tested before the medical career
warningOf_debtFirst(adv) ==
    IF Cents(totalDebt) > MulFrac(Cents(careerData.medianSalary), 3, 2)
    THEN "High debt-to-earnings ratio"
    ELSE IF /\ adv.title \in MedicalTitles
            /\ adv.matchedMajor # "health_premed"
            /\ adv.matchedMajor # "biology"
    THEN "Pre-med track is very competitive"
    ELSE IF adv.matchedMajor = "arts" \/ adv.matchedMajor = "humanities"
    THEN "Earnings in this field vary widely"
    ELSE IF adv.notes # Undefined THEN adv.notes
    ELSE Undefined
\* the warning of the summary
warningOf(adv) ==
    IF /\ adv.title \in MedicalTitles
       /\ adv.matchedMajor # "health_premed"
       /\ adv.matchedMajor # "biology"
    THEN "Pre-med track is very competitive"
    ELSE IF Cents(totalDebt) > MulFrac(Cents(careerData.medianSalary), 3, 2)
    THEN "High debt-to-earnings ratio"
    ELSE IF adv.matchedMajor = "arts" \/ adv.matchedMajor = "humanities"
    THEN "Earnings in this field vary widely"
    ELSE IF adv.notes # Undefined THEN adv.notes
    ELSE Undefined

\* x ? y : z and x || z on a number or null: 0 and null are falsy
Truthy(x) == x # Null /\ x # 0

summaryOf(a, adv) ==
    LET aidAdjustedPerYear == getAidAdjustedPrice(a)
        aidAdjustedUndergrad == IF Truthy(aidAdjustedPerYear)
                                THEN aidAdjustedPerYear * 4 ELSE Null
        lastYear == timeline[Len(timeline)]
        netWorthAtEnd == IF Truthy(lastYear.netWorth) THEN lastYear.netWorth ELSE -totalDebt
    IN  [totalCost |-> adjustedUndergradCost + gradDebt,
         costBreakdown |->
            [undergradWithRoomBoard |-> undergradCostWithRB,
             undergradTuitionOnly |-> undergradCostTuitionOnly,
             gradSchoolCost |-> gradDebt,
             aidAdjustedUndergrad |-> IF Truthy(aidAdjustedUndergrad)
                                      THEN aidAdjustedUndergrad ELSE Null],
         peakDebt |-> Round(peakDebt),
         breakEvenAge |-> breakEvenAge,
         netWorthAt35 |-> netWorthAtEnd,
         warning |-> warningOf(adv)]

\* the statements after the loops and the return; the request fields that only
\* these statements read are bound here
Summarise ==
    /\ pc = "summary"
    /\ \E a \in Aids, adv \in Advisories :
          /\ aid' = a
          /\ advisory' = adv
          /\ summary' = summaryOf(a, adv)
    /\ pc' = "done"
    /\ UNCHANGED <<college, profile, careerData, year, cumulativeDebt, cumulativeEarnings,
                   accumulatedSavings, peakDebt, breakEvenAge, timeline, outcomeVars, endpointVars,
                   otherVars>>

NextLife == UndergradYear \/ GradSchoolYear \/ ResidencyYear \/ CareerYear \/ Summarise

-----------------------------------------------------------------------------
(* outcomes POST: constants, inputs and helpers                            *)

LOAN_TERM_YEARS == 10
DefaultNetPrice == 20000
DefaultCareerEarnings == 55000
PhdStipend == 30000
OutcomeResidencySalary == 60000
MinCareerYears == 6
OutcomeSpan == 15

\* INTEREST_RATE = 0.05 as a fraction
InterestNum == 1
InterestDen == 20

\* salaryGrowthRate is growthNum / growthDen
PROFESSIONAL_PATHS ==
    [bachelors |-> [name |-> "Bachelor's Degree", undergradYears |-> 4, gradYears |-> 0,
                    residencyYears |-> 0, gradCostPerYear |-> 0, additionalDebt |-> 0,
                    peakSalary |-> 65000, growthNum |-> 3, growthDen |-> 100],
     medical   |-> [name |-> "Medical Doctor (MD)", undergradYears |-> 4, gradYears |-> 4,
                    residencyYears |-> 4, gradCostPerYear |-> 60000, additionalDebt |-> 200000,
                    peakSalary |-> 250000, growthNum |-> 2, growthDen |-> 100],
     law       |-> [name |-> "Law (JD)", undergradYears |-> 4, gradYears |-> 3,
                    residencyYears |-> 0, gradCostPerYear |-> 55000, additionalDebt |-> 145000,
                    peakSalary |-> 130000, growthNum |-> 3, growthDen |-> 100],
     phd       |-> [name |-> "PhD", undergradYears |-> 4, gradYears |-> 5,
                    residencyYears |-> 0, gradCostPerYear |-> 5000, additionalDebt |-> 25000,
                    peakSalary |-> 95000, growthNum |-> 25, growthDen |-> 1000],
     mba       |-> [name |-> "MBA", undergradYears |-> 4, gradYears |-> 2,
                    residencyYears |-> 0, gradCostPerYear |-> 70000, additionalDebt |-> 120000,
                    peakSalary |-> 150000, growthNum |-> 4, growthDen |-> 100]]

PathNames == DOMAIN PROFESSIONAL_PATHS

OutcomeColleges ==
    [netPriceByIncome : {Null, 0, 8003},
     avgNetPrice : {Null, 12000},
     medianDebt : {Null, 0, 20000},
     median10yr : {Null, 45000}]

\* professionalPath: absent, one of the five, or a name the table lacks
OutcomeRequests ==
    [college : OutcomeColleges \cup {None},
     professionalPath : PathNames \cup {Undefined, "dental"}]

getNetPrice(c) == Coalesce(c.netPriceByIncome, Coalesce(c.avgNetPrice, DefaultNetPrice))

\* x * (1 + n/d)^k, in cents
RECURSIVE Compound(_, _, _, _)
Compound(x, n, d, k) == IF k <= 0 THEN x ELSE Compound(x + MulFrac(x, n, d), n, d, k - 1)

\* calculateMonthlyPayment(principal, INTEREST_RATE, LOAN_TERM_YEARS), the only rate
\* and term it is called with: principal * r(1+r)^n / ((1+r)^n - 1) with r = 0.05/12
\* and n = 120, which is principal * 0.0106066 (cents in, cents out)
calculateMonthlyPayment(principal) ==
    IF principal <= 0 THEN 0
    ELSE ((principal \div 10000) * 106066
          + ((principal % 10000) * 106066 + 5000) \div 10000 + 500) \div 1000

\* the request's path name with its default
oPathName == IF oRequest.professionalPath = Undefined THEN "bachelors"
             ELSE oRequest.professionalPath
oPath == PROFESSIONAL_PATHS[oPathName]

\* POST's totalSchoolYears counts the residency
oTotalSchoolYears == oPath.undergradYears + oPath.gradYears + oPath.residencyYears
careerYearsToShow == Max(MinCareerYears, OutcomeSpan - oTotalSchoolYears)
totalYears == oTotalSchoolYears + careerYearsToShow

\* cents
netPricePerYear == Cents(getNetPrice(oRequest.college))
undergradTuition == netPricePerYear * oPath.undergradYears
gradTuition == Cents(oPath.gradCostPerYear) * oPath.gradYears
totalTuition == undergradTuition + gradTuition

oUndergradDebt_estimateOnly == Cents(Round(MulFrac(undergradTuition, 3, 5)))
oUndergradDebt ==
    IF oRequest.college.medianDebt # Null
    THEN Cents(oRequest.college.medianDebt)
    ELSE Cents(Round(MulFrac(undergradTuition, 3, 5)))
oTotalDebt == oUndergradDebt + Cents(oPath.additionalDebt)

monthlyPayment == calculateMonthlyPayment(oTotalDebt)
annualPayment == monthlyPayment * 12

baseCareerEarnings == Cents(Coalesce(oRequest.college.median10yr, DefaultCareerEarnings))

\* the phase getYearLabel gives a year
getYearLabel(y, path) ==
    IF y <= path.undergradYears THEN "undergrad"
    ELSE IF y <= path.undergradYears + path.gradYears THEN "grad_school"
    ELSE IF y <= path.undergradYears + path.gradYears + path.residencyYears THEN "residency"
    ELSE "career"

\* cents; calculateEarnings' own totalSchoolYears leaves the residency out
calculateEarnings(y, path, baseEarnings) ==
    LET schoolYears == path.undergradYears + path.gradYears
        careerYear == y - schoolYears - path.residencyYears
        startingSalary == MulFrac(Cents(path.peakSalary), 7, 10)
    IN  IF y <= path.undergradYears THEN 0
        ELSE IF y <= path.undergradYears + path.gradYears
             THEN (IF path.name = "PhD" THEN Cents(PhdStipend) ELSE 0)
        ELSE IF y <= schoolYears + path.residencyYears THEN Cents(OutcomeResidencySalary)
        ELSE IF path.name = "Bachelor's Degree"
             THEN Compound(baseEarnings, path.growthNum, path.growthDen, careerYear - 1)
        ELSE Min(Cents(path.peakSalary),
                 Compound(startingSalary, path.growthNum, path.growthDen, careerYear - 1))

\* x ? Math.round(x) : null, x in cents or Null
RoundOrNull(x) == IF Truthy(x) THEN Round(x) ELSE Null

-----------------------------------------------------------------------------
(* outcomes POST: the handler                                              *)

OutcomeIdle ==
    /\ oRequest = None /\ oPc = "idle" /\ oYear = 0
    /\ cumulativeTuition = 0 /\ debtWithInterest = 0 /\ totalEarnings = 0
    /\ totalLoanPaid = 0 /\ remainingDebt = 0 /\ breakEvenYear = Null
    /\ oTimeline = <<>> /\ oResponse = None

InitOutcome ==
    /\ oRequest \in OutcomeRequests
    /\ oPc = "request" /\ oYear = 0
    /\ cumulativeTuition = 0 /\ debtWithInterest = 0 /\ totalEarnings = 0
    /\ totalLoanPaid = 0 /\ remainingDebt = 0 /\ breakEvenYear = Null
    /\ oTimeline = <<>> /\ oResponse = None

outcomeLocals == <<cumulativeTuition, debtWithInterest, totalEarnings, totalLoanPaid,
                   remainingDebt, breakEvenYear, oTimeline>>

\* if (!college) return 400
OutcomeReject ==
    /\ oPc = "request"
    /\ oRequest.college = None
    /\ oResponse' = [status |-> 400, error |-> "College data required"]
    /\ oPc' = "done"
    /\ UNCHANGED <<oRequest, oYear, outcomeLocals, lifeVars, endpointVars, otherVars>>

\* PROFESSIONAL_PATHS[professionalPath] is undefined: destructuring it throws, the
\* catch clause answers 500
OutcomeThrow ==
    /\ oPc = "request"
    /\ oRequest.college # None
    /\ oPathName \notin PathNames
    /\ oResponse' = [status |-> 500, error |-> "Failed to generate outcomes"]
    /\ oPc' = "done"
    /\ UNCHANGED <<oRequest, oYear, outcomeLocals, lifeVars, endpointVars, otherVars>>

\* the statements before the loop
OutcomeBegin ==
    /\ oPc = "request"
    /\ oRequest.college # None
    /\ oPathName \in PathNames
    /\ oPc' = "loop"
    /\ oYear' = 1
    /\ UNCHANGED <<oRequest, outcomeLocals, oResponse, lifeVars, endpointVars, otherVars>>

TimelineYear(y, ph, tuition, cumT, debt, earnings, loanPayment, netIncome, netWorth) ==
    [year |-> y, phase |-> ph, tuitionPaidThisYear |-> tuition,
     cumulativeTuition |-> cumT, debtWithInterest |-> Round(debt),
     earnings |-> RoundOrNull(earnings), loanPayment |-> RoundOrNull(loanPayment),
     netIncome |-> RoundOrNull(netIncome), netWorth |-> Round(netWorth)]

\* what one pass of the loop leaves in the locals, by phase:
\* [tuition, cumT, debt, remaining, earned, paid, earnings, loanPayment, netIncome]
OutcomePass(y) ==
    LET path == oPath
        phase == getYearLabel(y, path)
        grown == remainingDebt + MulFrac(remainingDebt, InterestNum, InterestDen)
    IN  IF phase = "undergrad" THEN
            LET cumT == cumulativeTuition + netPricePerYear
                atEnd == y = path.undergradYears
            IN  [tuition |-> netPricePerYear, cumT |-> cumT,
                 debt |-> IF atEnd THEN oUndergradDebt
                          ELSE Compound(cumT, InterestNum, InterestDen, y),
                 remaining |-> IF atEnd THEN oUndergradDebt ELSE remainingDebt,
                 earned |-> totalEarnings, paid |-> totalLoanPaid,
                 earnings |-> Null, loanPayment |-> Null, netIncome |-> Null]
        ELSE IF phase = "grad_school" THEN
            LET tuition == Cents(path.gradCostPerYear)
                yearsInGrad == y - path.undergradYears
                earnings == calculateEarnings(y, path, baseCareerEarnings)
                atEnd == y = path.undergradYears + path.gradYears
            IN  [tuition |-> tuition, cumT |-> cumulativeTuition + tuition,
                 debt |-> IF atEnd THEN oTotalDebt
                          ELSE Compound(remainingDebt, InterestNum, InterestDen, yearsInGrad)
                               + tuition * yearsInGrad,
                 remaining |-> IF atEnd THEN oTotalDebt ELSE remainingDebt,
                 earned |-> IF earnings > 0 THEN totalEarnings + earnings ELSE totalEarnings,
                 paid |-> totalLoanPaid,
                 earnings |-> earnings, loanPayment |-> Null, netIncome |-> Null]
        ELSE IF phase = "residency" THEN
            LET earnings == calculateEarnings(y, path, baseCareerEarnings)
            IN  [tuition |-> 0, cumT |-> cumulativeTuition,
                 debt |-> grown, remaining |-> grown,
                 earned |-> totalEarnings + earnings, paid |-> totalLoanPaid,
                 earnings |-> earnings, loanPayment |-> Null, netIncome |-> earnings]
        ELSE
            LET earnings == calculateEarnings(y, path, baseCareerEarnings)
                loanPayment == IF remainingDebt > 0 THEN Min(annualPayment, grown) ELSE 0
                remaining == IF remainingDebt > 0 THEN Max(0, grown - loanPayment)
                             ELSE remainingDebt
            IN  [tuition |-> 0, cumT |-> cumulativeTuition,
                 debt |-> remaining, remaining |-> remaining,
                 earned |-> totalEarnings + earnings, paid |-> totalLoanPaid + loanPayment,
                 earnings |-> earnings, loanPayment |-> loanPayment,
                 netIncome |-> earnings - loanPayment]

\* for (let year = 1; year <= totalYears; year++)
OutcomeYear ==
    /\ oPc = "loop"
    /\ LET r == OutcomePass(oYear)
           netWorth == r.earned - r.debt
       IN  /\ cumulativeTuition' = r.cumT
           /\ debtWithInterest' = r.debt
           /\ remainingDebt' = r.remaining
           /\ totalEarnings' = r.earned
           /\ totalLoanPaid' = r.paid
           /\ breakEvenYear' = IF breakEvenYear = Null /\ netWorth > 0
                               THEN oYear ELSE breakEvenYear
           /\ oTimeline' = Append(oTimeline,
                 TimelineYear(oYear, getYearLabel(oYear, oPath), Round(r.tuition),
                              Round(r.cumT), r.debt, r.earnings, r.loanPayment,
                              r.netIncome, netWorth))
    /\ IF oYear < totalYears
       THEN oPc' = oPc /\ oYear' = oYear + 1
       ELSE oPc' = "summary" /\ oYear' = oYear
    /\ UNCHANGED <<oRequest, oResponse, lifeVars, endpointVars, otherVars>>

\* the summary and the success response
OutcomeReturn ==
    /\ oPc = "summary"
    /\ LET yearsToPayoff == IF oTotalDebt > 0
                            THEN (oTotalDebt + annualPayment - 1) \div annualPayment
                            ELSE 0
           roiAtEnd == totalEarnings - totalTuition - totalLoanPaid
       IN  oResponse' =
              [status |-> 200,
               professionalPath |-> oPathName,
               timeline |-> oTimeline,
               summary |->
                  [totalCost |-> Round(totalTuition),
                   totalDebt |-> Round(oTotalDebt),
                   breakEvenYear |-> breakEvenYear,
                   roiAtEnd |-> Round(roiAtEnd),
                   monthlyPayment |-> Round(monthlyPayment),
                   yearsToPayoff |-> Min(yearsToPayoff, LOAN_TERM_YEARS + 5),
                   path |-> oPath.name,
                   totalYears |-> totalYears]]
    /\ oPc' = "done"
    /\ UNCHANGED <<oRequest, oYear, outcomeLocals, lifeVars, endpointVars, otherVars>>

NextOutcome == OutcomeReject \/ OutcomeThrow \/ OutcomeBegin \/ OutcomeYear \/ OutcomeReturn

-----------------------------------------------------------------------------
(* life-path POST and getCareerDataFromAI: inputs and helpers              *)

\* the requests the process serves, possibly at the same time
Requests == {"r1", "r2"}

\* the rows of the colleges table, by id; no row has id 3
CollegeRows ==
    [i \in {1, 2} |-> IF i = 1 THEN [id |-> 1, state |-> "NV", city |-> "Reno"]
                              ELSE [id |-> 2, state |-> "CA", city |-> "Davis"]]
StoredIds == DOMAIN CollegeRows

\* body.colleges absent
Missing == <<Null>>
\* body.colleges, as the ids the handler reads from it
CollegeLists == {Missing, <<>>, <<1>>, <<1, 2>>, <<2, 1>>, <<3, 1>>, <<3>>}

\* the keys of netPriceByIncome
IncomeBrackets == {"0-30000", "30001-48000", "48001-75000", "75001-110000", "110001-plus"}

LifePathRequests ==
    [colleges : CollegeLists,
     profile : [incomeBracket : {"0-30000", "lots"}, careerGoal : {"Nurse", "nurse", ""}]]

\* String.prototype.toLowerCase on the career texts of the model
toLowerCase(t) == IF t = "Nurse" THEN "nurse" ELSE t

\* x || "" on a string or undefined
OrEmpty(x) == IF x = Undefined THEN "" ELSE x

cacheKey(careerText, state, city) ==
    toLowerCase(careerText) \o "-" \o OrEmpty(state) \o "-" \o OrEmpty(city)

CareerTexts == {"Nurse", "nurse", "general career"}
CacheKeys ==
    {cacheKey(t, l[1], l[2]) :
        t \in CareerTexts,
        l \in {<<"NV", "Reno">>, <<"CA", "Davis">>, <<Undefined, Undefined>>}}

\* what the provider's text parses to: a full answer and one with the median only
AnswerFull ==
    [title |-> "Registered Nurse", medianSalary |-> 80000, salaryLow |-> 65000,
     salaryHigh |-> 100000, growthRate |-> 6, educationYears |-> 4, trainingYears |-> 0,
     requiresGradSchool |-> "false", gradSchoolYears |-> 0, gradCostPerYear |-> 0,
     residencyYears |-> 0, residencySalary |-> 0, notes |-> "Licence required"]
AnswerSparse ==
    [title |-> Undefined, medianSalary |-> 60000, salaryLow |-> Null,
     salaryHigh |-> Null, growthRate |-> Null, educationYears |-> Null,
     trainingYears |-> Null, requiresGradSchool |-> Undefined, gradSchoolYears |-> Null,
     gradCostPerYear |-> Null, residencyYears |-> Null, residencySalary |-> Null,
     notes |-> Undefined]
ProviderAnswers == {AnswerFull, AnswerSparse}

\* the ways the provider call fails: create() throws, content[0] is not text,
\* JSON.parse throws
ProviderFailures == {"throws", "non-text", "unparsable"}

\* a || b || c on numbers, b being a product that is NaN when its factor is missing
OrProduct(a, factor, n, d, c) ==
    IF Truthy(a) THEN a
    ELSE IF Truthy(factor) /\ MulFrac(factor, n, d) # 0 THEN MulFrac(factor, n, d)
    ELSE c

\* validatedData
validatedData(data, careerText) ==
    [title |-> IF data.title # Undefined /\ data.title # "" THEN data.title ELSE careerText,
     medianSalary |-> IF Truthy(data.medianSalary) THEN data.medianSalary ELSE 50000,
     salaryLow |-> OrProduct(data.salaryLow, data.medianSalary, 7, 10, 35000),
     salaryHigh |-> OrProduct(data.salaryHigh, data.medianSalary, 14, 10, 70000),
     growthRate |-> Coalesce(data.growthRate, 4),
     educationYears |-> Coalesce(data.educationYears, 4),
     trainingYears |-> Coalesce(data.trainingYears, 0),
     requiresGradSchool |-> data.requiresGradSchool = "true",
     gradSchoolYears |-> Coalesce(data.gradSchoolYears, 0),
     gradCostPerYear |-> Coalesce(data.gradCostPerYear, 0),
     residencyYears |-> Coalesce(data.residencyYears, 0),
     residencySalary |-> Coalesce(data.residencySalary, 0),
     notes |-> IF data.notes # Undefined /\ data.notes # "" THEN data.notes ELSE Undefined]

\* the profile returned from the catch clause
fallbackData(careerText) ==
    [title |-> careerText, medianSalary |-> 55000, salaryLow |-> 40000,
     salaryHigh |-> 75000, growthRate |-> 4, educationYears |-> 4, trainingYears |-> 0,
     requiresGradSchool |-> FALSE, gradSchoolYears |-> 0, gradCostPerYear |-> 0,
     residencyYears |-> 0, residencySalary |-> 0,
     notes |-> "Using estimated data - career lookup failed"]

\* the number of snapshots generateLifePath puts in the timeline for a career
timelineLength(cd) ==
    UndergradYears
    + (IF cd.requiresGradSchool /\ cd.gradSchoolYears > 0 THEN cd.gradSchoolYears ELSE 0)
    + (IF cd.residencyYears > 0 /\ cd.residencySalary > 0 THEN cd.residencyYears ELSE 0)
    + Max(0, HorizonYears - UndergradYears - cd.gradSchoolYears - cd.residencyYears + 1)

\* generateLifePath(college, profile, careerData), as the arguments it is computed
\* from and the length of its timeline
LifePath(c, p, cd) ==
    [college |-> c.id, incomeBracket |-> p.incomeBracket, careerGoal |-> p.careerGoal,
     careerData |-> cd, snapshots |-> timelineLength(cd)]

\* the orders in which the store may return the rows of a set of ids
RowOrders(ids) ==
    LET n == Cardinality(ids)
        orders == {q \in [1..n -> ids] : \A i, j \in 1..n : i # j => q[i] # q[j]}
    IN  {[i \in 1..n |-> CollegeRows[q[i]]] : q \in orders}

\* the ids of a request's colleges that have a row
MatchingIds(list) == {list[i] : i \in DOMAIN list} \cap StoredIds

-----------------------------------------------------------------------------
(* life-path POST and getCareerDataFromAI: one action per stretch of code  *)
(* between two awaits                                                      *)

IdleRequest ==
    [pc |-> "idle", body |-> None, fullColleges |-> <<>>, careerText |-> "",
     cacheKey |-> "", careerData |-> None, provider |-> "not called", response |-> None]

EndpointIdle ==
    /\ careerDataCache = [k \in CacheKeys |-> None]
    /\ requests = [r \in Requests |-> IdleRequest]

\* if (!colleges || colleges.length === 0) return 400
LifePathReject(r) ==
    /\ requests[r].pc = "idle"
    /\ \E body \in LifePathRequests :
          /\ body.colleges = Missing \/ Len(body.colleges) = 0
          /\ requests' = [requests EXCEPT ![r] =
                [@ EXCEPT !.pc = "done", !.body = body,
                          !.response = [status |-> 400, error |-> "No colleges provided"]]]
    /\ UNCHANGED <<careerDataCache, lifeVars, outcomeVars, otherVars>>

\* the request passes the check and the query is sent
LifePathBegin(r) ==
    /\ requests[r].pc = "idle"
    /\ \E body \in LifePathRequests :
          /\ body.colleges # Missing /\ Len(body.colleges) > 0
          /\ requests' = [requests EXCEPT ![r] = [@ EXCEPT !.pc = "query", !.body = body]]
    /\ UNCHANGED <<careerDataCache, lifeVars, outcomeVars, otherVars>>

\* connection.execute throws: the catch clause answers 500
LifePathQueryFails(r) ==
    /\ requests[r].pc = "query"
    /\ requests' = [requests EXCEPT ![r] =
          [@ EXCEPT !.pc = "done",
                    !.response = [status |-> 500, error |-> "Failed to generate life paths"]]]
    /\ UNCHANGED <<careerDataCache, lifeVars, outcomeVars, otherVars>>

\* the rows arrive, in the order the store chose; getCareerDataFromAI is entered:
\* a cached profile is returned, otherwise the provider is called
LifePathQuery(r) ==
    /\ requests[r].pc = "query"
    /\ \E rows \in RowOrders(MatchingIds(requests[r].body.colleges)) :
          LET goal == requests[r].body.profile.careerGoal
              careerText == IF goal = "" THEN "general career" ELSE goal
              key == IF Len(rows) > 0
                     THEN cacheKey(careerText, rows[1].state, rows[1].city)
                     ELSE cacheKey(careerText, Undefined, Undefined)
          IN  requests' = [requests EXCEPT ![r] =
                 [@ EXCEPT !.fullColleges = rows,
                           !.careerText = careerText,
                           !.cacheKey = key,
                           !.pc = IF careerDataCache[key] # None THEN "paths" ELSE "provider",
                           !.careerData = careerDataCache[key]]]
    /\ UNCHANGED <<careerDataCache, lifeVars, outcomeVars, otherVars>>

\* the provider answers with a text that parses: the profile is validated, cached
\* and returned
ProviderResolves(r) ==
    /\ requests[r].pc = "provider"
    /\ \E data \in ProviderAnswers :
          LET validated == validatedData(data, requests[r].careerText)
          IN  /\ careerDataCache' = [careerDataCache EXCEPT ![requests[r].cacheKey] = validated]
              /\ requests' = [requests EXCEPT ![r] =
                    [@ EXCEPT !.pc = "paths", !.careerData = validated,
                              !.provider = "answered"]]
    /\ UNCHANGED <<lifeVars, outcomeVars, otherVars>>

\* the failure of the provider call escaping to the handler, which answers 500
ProviderFails_escapes(r) ==
    /\ requests[r].pc = "provider"
    /\ \E failure \in ProviderFailures :
          requests' = [requests EXCEPT ![r] =
             [@ EXCEPT !.pc = "done", !.provider = failure,
                       !.response = [status |-> 500,
                                     error |-> "Failed to generate life paths"]]]
    /\ UNCHANGED <<careerDataCache, lifeVars, outcomeVars, otherVars>>

\* the provider call fails: the catch clause returns the fallback profile, uncached
ProviderFails(r) ==
    /\ requests[r].pc = "provider"
    /\ \E failure \in ProviderFailures :
          requests' = [requests EXCEPT ![r] =
             [@ EXCEPT !.pc = "paths", !.careerData = fallbackData(requests[r].careerText),
                       !.provider = failure]]
    /\ UNCHANGED <<careerDataCache, lifeVars, outcomeVars, otherVars>>

\* Promise.all over fullColleges, and the success response
LifePathRespond(r) ==
    /\ requests[r].pc = "paths"
    /\ LET q == requests[r]
           cd == q.careerData
       IN  requests' = [requests EXCEPT ![r] =
              [@ EXCEPT !.pc = "done",
                        !.response =
                           [status |-> 200,
                            paths |-> [i \in 1..Len(q.fullColleges) |->
                                          LifePath(q.fullColleges[i], q.body.profile, cd)],
                            careerData |-> [title |-> cd.title,
                                            medianSalary |-> cd.medianSalary,
                                            salaryRange |-> [low |-> cd.salaryLow,
                                                             high |-> cd.salaryHigh],
                                            growthRate |-> cd.growthRate]]]]
    /\ UNCHANGED <<careerDataCache, lifeVars, outcomeVars, otherVars>>

NextEndpoint ==
    \E r \in Requests :
        \/ LifePathReject(r)
        \/ LifePathBegin(r)
        \/ LifePathQueryFails(r)
        \/ LifePathQuery(r)
        \/ ProviderResolves(r)
        \/ ProviderFails(r)
        \/ LifePathRespond(r)

-----------------------------------------------------------------------------
(* matchCareerFromText: free text -> career category                       *)
(*                                                                         *)
(* A text is the sequence of the words of text.toLowerCase().trim(), words *)
(* separated by single spaces.  A keyword phrase is a sequence of words    *)
(* too, and /\b(k1|k2|...)\b/ matches a text when one of its phrases       *)
(* occurs in it as consecutive whole words.                                *)

\* the keys of CAREER_PATH_CONFIG
CAREER_PATH_CONFIG ==
    {"tech_engineer", "tech_pm", "finance", "consulting", "medicine", "surgery",
     "neurosurgery", "healthcare", "nursing", "law", "academia", "teaching",
     "creative", "entrepreneur", "government", "not_sure", "trades", "first_responder",
     "military", "real_estate", "sales", "dentistry", "pharmacy", "veterinary",
     "optometry", "therapy", "healthcare_tech", "social_work", "media", "data_analyst",
     "accounting", "aviation", "logistics", "corporate", "marketing", "architecture",
     "hospitality", "fitness", "beauty", "agriculture", "nonprofit"}

\* const patterns: [RegExp, string][], in the order of the source
patterns ==
    <<
      [category |-> "nursing",
       keywords |-> {<<"nursing">>, <<"nurse">>, <<"rn">>, <<"bsn">>, <<"lpn">>,
                    <<"registered", "nurse">>, <<"nurse", "practitioner">>, <<"np">>}],
      [category |-> "tech_engineer",
       keywords |-> {<<"software">>, <<"developer">>, <<"programmer">>, <<"engineer">>,
                    <<"coding">>, <<"web", "dev">>, <<"data", "scientist">>,
                    <<"devops">>, <<"sysadmin">>, <<"network", "admin">>,
                    <<"database">>, <<"dba">>, <<"qa">>, <<"tester">>,
                    <<"cybersecurity">>, <<"cloud">>, <<"backend">>, <<"frontend">>,
                    <<"full", "stack">>, <<"machine", "learning">>,
                    <<"ai", "engineer">>}],
      [category |-> "tech_pm",
       keywords |-> {<<"product", "manager">>, <<"pm">>, <<"product", "owner">>,
                    <<"ux">>, <<"ui", "designer">>, <<"scrum", "master">>, <<"agile">>}],
      [category |-> "data_analyst",
       keywords |-> {<<"data", "analyst">>, <<"business", "analyst">>, <<"analytics">>,
                    <<"statistician">>, <<"actuary">>, <<"quantitative">>}],
      [category |-> "finance",
       keywords |-> {<<"finance">>, <<"banker">>, <<"investment">>, <<"trading">>,
                    <<"wall", "street">>, <<"hedge", "fund">>, <<"private", "equity">>,
                    <<"venture", "capital">>, <<"financial", "advisor">>,
                    <<"wealth", "management">>, <<"cfo">>}],
      [category |-> "accounting",
       keywords |-> {<<"accountant">>, <<"accounting">>, <<"cpa">>, <<"auditor">>,
                    <<"tax">>, <<"bookkeeper">>}],
      [category |-> "consulting",
       keywords |-> {<<"consultant">>, <<"consulting">>, <<"mckinsey">>, <<"bain">>,
                    <<"bcg">>, <<"deloitte">>, <<"pwc">>, <<"kpmg">>, <<"ey">>,
                    <<"accenture">>}],
      [category |-> "neurosurgery",
       keywords |-> {<<"neurosurgeon">>, <<"neurosurgery">>, <<"brain", "surgeon">>,
                    <<"brain", "surgery">>}],
      [category |-> "surgery",
       keywords |-> {<<"surgeon">>, <<"surgery">>, <<"surgical">>,
                    <<"orthopedic", "surgeon">>, <<"cardiac", "surgeon">>,
                    <<"trauma", "surgeon">>, <<"plastic", "surgeon">>,
                    <<"general", "surgery">>}],
      [category |-> "medicine",
       keywords |-> {<<"doctor">>, <<"physician">>, <<"md">>, <<"do">>,
                    <<"medical", "doctor">>, <<"pediatrician">>, <<"cardiologist">>,
                    <<"dermatologist">>, <<"psychiatrist">>, <<"oncologist">>,
                    <<"anesthesiologist">>, <<"radiologist">>}],
      [category |-> "dentistry",
       keywords |-> {<<"dentist">>, <<"dental">>, <<"orthodontist">>,
                    <<"oral", "surgeon">>, <<"periodontist">>}],
      [category |-> "pharmacy",
       keywords |-> {<<"pharmacist">>, <<"pharmacy">>, <<"pharmd">>}],
      [category |-> "veterinary",
       keywords |-> {<<"veterinarian">>, <<"vet">>, <<"veterinary">>,
                    <<"animal", "doctor">>}],
      [category |-> "optometry",
       keywords |-> {<<"optometrist">>, <<"optometry">>, <<"eye", "doctor">>}],
      [category |-> "therapy",
       keywords |-> {<<"physical", "therapist">>, <<"pt">>, <<"dpt">>,
                    <<"occupational", "therapist">>, <<"ot">>,
                    <<"speech", "therapist">>, <<"slp">>, <<"rehab">>}],
      [category |-> "healthcare",
       keywords |-> {<<"healthcare">>, <<"health", "care">>, <<"medical", "assistant">>,
                    <<"technician">>, <<"radiology">>, <<"sonographer">>,
                    <<"phlebotomist">>, <<"medical", "coder">>, <<"health", "admin">>,
                    <<"hospital">>}],
      [category |-> "healthcare_tech",
       keywords |-> {<<"dental", "hygienist">>, <<"dental", "assistant">>,
                    <<"vet", "tech">>, <<"veterinary", "tech">>,
                    <<"pharmacy", "tech">>, <<"lab", "tech">>}],
      [category |-> "law",
       keywords |-> {<<"lawyer">>, <<"attorney">>, <<"legal">>, <<"paralegal">>,
                    <<"judge">>, <<"prosecutor">>, <<"public", "defender">>,
                    <<"corporate", "counsel">>}],
      [category |-> "academia",
       keywords |-> {<<"professor">>, <<"academia">>, <<"phd">>, <<"research">>,
                    <<"scientist">>, <<"researcher">>, <<"postdoc">>}],
      [category |-> "teaching",
       keywords |-> {<<"teacher">>, <<"teaching">>, <<"educator">>, <<"principal">>,
                    <<"school">>, <<"tutor">>, <<"special", "education">>}],
      [category |-> "social_work",
       keywords |-> {<<"social", "worker">>, <<"counselor">>, <<"therapist">>,
                    <<"mental", "health">>, <<"case", "manager">>,
                    <<"family", "services">>, <<"child", "welfare">>, <<"lcsw">>,
                    <<"lmft">>}],
      [category |-> "creative",
       keywords |-> {<<"artist">>, <<"musician">>, <<"writer">>, <<"filmmaker">>,
                    <<"photographer">>, <<"actor">>, <<"actress">>, <<"animator">>,
                    <<"video", "editor">>, <<"graphic", "design">>, <<"illustrator">>,
                    <<"creative", "director">>}],
      [category |-> "media",
       keywords |-> {<<"content", "creator">>, <<"influencer">>, <<"streamer">>,
                    <<"youtuber">>, <<"podcaster">>, <<"social", "media">>,
                    <<"journalist">>, <<"reporter">>, <<"news">>, <<"broadcasting">>}],
      [category |-> "entrepreneur",
       keywords |-> {<<"entrepreneur">>, <<"startup">>, <<"founder">>,
                    <<"business", "owner">>, <<"self-employed">>, <<"freelance">>,
                    <<"small", "business">>}],
      [category |-> "government",
       keywords |-> {<<"government">>, <<"federal">>, <<"public", "sector">>,
                    <<"civil", "servant">>, <<"policy">>, <<"diplomat">>,
                    <<"city", "planner">>, <<"urban", "planner">>}],
      [category |-> "trades",
       keywords |-> {<<"electrician">>, <<"plumber">>, <<"hvac">>, <<"carpenter">>,
                    <<"mechanic">>, <<"welder">>, <<"construction">>, <<"contractor">>,
                    <<"trades">>, <<"lineman">>, <<"ironworker">>, <<"machinist">>,
                    <<"cnc">>, <<"heavy", "equipment">>, <<"crane", "operator">>,
                    <<"roofer">>, <<"painter">>, <<"mason">>}],
      [category |-> "trades",
       keywords |-> {<<"auto", "mechanic">>, <<"automotive">>, <<"car">>, <<"diesel">>,
                    <<"collision", "repair">>, <<"body", "shop">>}],
      [category |-> "first_responder",
       keywords |-> {<<"police">>, <<"cop">>, <<"officer">>, <<"firefighter">>,
                    <<"emt">>, <<"paramedic">>, <<"first", "responder">>,
                    <<"detective">>, <<"sheriff">>, <<"state", "trooper">>,
                    <<"corrections">>, <<"prison">>}],
      [category |-> "military",
       keywords |-> {<<"military">>, <<"army">>, <<"navy">>, <<"air", "force">>,
                    <<"marines">>, <<"coast", "guard">>, <<"national", "guard">>,
                    <<"veteran">>, <<"enlisted">>, <<"officer">>}],
      [category |-> "aviation",
       keywords |-> {<<"pilot">>, <<"aviation">>, <<"airline">>,
                    <<"flight", "attendant">>, <<"air", "traffic">>, <<"aerospace">>}],
      [category |-> "logistics",
       keywords |-> {<<"truck", "driver">>, <<"trucker">>, <<"cdl">>, <<"logistics">>,
                    <<"supply", "chain">>, <<"warehouse">>, <<"shipping">>,
                    <<"delivery">>, <<"ups">>, <<"fedex">>, <<"amazon">>}],
      [category |-> "real_estate",
       keywords |-> {<<"real", "estate">>, <<"realtor">>, <<"property">>, <<"broker">>,
                    <<"mortgage">>, <<"appraiser">>}],
      [category |-> "sales",
       keywords |-> {<<"sales">>, <<"account", "executive">>, <<"ae">>,
                    <<"business", "development">>, <<"bdr">>, <<"sdr">>, <<"retail">>,
                    <<"store", "manager">>}],
      [category |-> "corporate",
       keywords |-> {<<"human", "resources">>, <<"hr">>, <<"recruiter">>, <<"talent">>,
                    <<"operations">>, <<"office", "manager">>, <<"administrative">>,
                    <<"executive", "assistant">>, <<"project", "manager">>, <<"pmp">>}],
      [category |-> "marketing",
       keywords |-> {<<"marketing">>, <<"brand">>, <<"advertising">>, <<"seo">>,
                    <<"growth">>, <<"digital", "marketing">>, <<"pr">>,
                    <<"public", "relations">>, <<"communications">>}],
      [category |-> "architecture",
       keywords |-> {<<"architect">>, <<"architecture">>, <<"interior", "design">>,
                    <<"landscape", "architect">>}],
      [category |-> "hospitality",
       keywords |-> {<<"chef">>, <<"cook">>, <<"culinary">>, <<"restaurant">>,
                    <<"hotel">>, <<"hospitality">>, <<"event", "planner">>,
                    <<"catering">>, <<"bartender">>, <<"sommelier">>}],
      [category |-> "fitness",
       keywords |-> {<<"personal", "trainer">>, <<"fitness">>, <<"gym">>, <<"coach">>,
                    <<"athletic", "trainer">>, <<"sports">>, <<"yoga">>, <<"pilates">>,
                    <<"nutritionist">>, <<"dietitian">>}],
      [category |-> "beauty",
       keywords |-> {<<"cosmetologist">>, <<"hair", "stylist">>, <<"barber">>,
                    <<"esthetician">>, <<"nail", "tech">>, <<"makeup", "artist">>,
                    <<"beauty">>, <<"salon">>, <<"spa">>}],
      [category |-> "agriculture",
       keywords |-> {<<"farmer">>, <<"farming">>, <<"agriculture">>, <<"rancher">>,
                    <<"agricultural">>, <<"agribusiness">>}],
      [category |-> "nonprofit",
       keywords |-> {<<"nonprofit">>, <<"non-profit">>, <<"ngo">>, <<"charity">>,
                    <<"foundation">>, <<"advocacy">>, <<"community", "organizer">>}]
    >>

\* the phrase occurs in the text as consecutive whole words
Occurs(phrase, text) ==
    \E i \in 0 .. (Len(text) - Len(phrase)) :
        \A j \in 1 .. Len(phrase) : text[i + j] = phrase[j]

\* pattern.test(lower)
test(pattern, text) == \E phrase \in pattern.keywords : Occurs(phrase, text)

\* the for-loop over patterns: the first pattern that matches decides
RECURSIVE firstMatch(_, _)
firstMatch(i, text) ==
    IF i > Len(patterns) THEN "not_sure"
    ELSE IF test(patterns[i], text) THEN patterns[i].category
    ELSE firstMatch(i + 1, text)

matchCareerFromText(text) ==
    IF Len(text) = 1 /\ text[1] \in CAREER_PATH_CONFIG THEN text[1]
    ELSE firstMatch(1, text)

\* every keyword phrase of every pattern
KeywordPhrases == UNION {patterns[i].keywords : i \in DOMAIN patterns}

\* the texts classified: every keyword phrase by itself, a phrase inside a
\* sentence, every category key, a text no pattern knows, the empty text
GoalTexts ==
    KeywordPhrases
    \cup {<<"i", "want", "to", "be", "a">> \o k :
             k \in {<<"brain", "surgeon">>, <<"oral", "surgeon">>, <<"surgeon">>,
                    <<"eye", "doctor">>, <<"dental", "hygienist">>, <<"vet", "tech">>}}
    \cup {<<k>> : k \in CAREER_PATH_CONFIG}
    \cup {<<"astronaut">>, <<>>}

ClassifierIdle ==
    /\ goalText = <<>>
    /\ category = "not_sure"

InitClassifier ==
    /\ goalText \in GoalTexts
    /\ category = Undefined

MatchCareer ==
    /\ category = Undefined
    /\ category' = matchCareerFromText(goalText)
    /\ UNCHANGED <<goalText, lifeVars, outcomeVars, endpointVars, searchVars, lookupVars,
                   pageVars>>

NextClassifier == MatchCareer

-----------------------------------------------------------------------------
(* GET /api/colleges/search with a query and no id: text, vector and hybrid  *)
(* search.  A row is the id of the college and the name of the rank column  *)
(* the query selected with it (text_score or distance); the other columns   *)
(* and the value of the score play no part in which rows are returned.      *)

MaxSearchLimit == 3
NumColleges == 4
DefaultLimit == 10
LimitCap == 50

CollegeIds == 1 .. NumColleges

\* searchParams.get("limit"): absent, or a number
LimitParams == {Null} \cup (-1 .. MaxSearchLimit) \cup {LimitCap + 10}

SearchModes == {"text", "hybrid", "vector"}

\* Math.min(parseInt(searchParams.get("limit") || "10"), 50)
limitOf(param) == Min(IF param = Null THEN DefaultLimit ELSE param, LimitCap)

\* what a SELECT ... LIMIT n can return: rows of distinct colleges, at most n
RECURSIVE RowLists(_, _)
RowLists(n, column) ==
    IF n <= 0 THEN {<<>>}
    ELSE LET shorter == RowLists(n - 1, column)
         IN  shorter \cup
             {Append(rows, [id |-> i, column |-> column]) :
                 rows \in {l \in shorter : Len(l) = n - 1},
                 i \in CollegeIds}
QueryResults(n, column) ==
    {rows \in RowLists(Min(n, NumColleges), column) :
        \A i, j \in DOMAIN rows : i # j => rows[i].id # rows[j].id}

idsOf(rows) == {rows[i].id : i \in DOMAIN rows}

\* combinedResults.slice(0, limit)
slice(rows, limit) == SubSeq(rows, 1, Min(limit, Len(rows)))

\* const seenIds = new Set(...); for (const vr of vectorResults) ...
RECURSIVE combine(_, _, _)
combine(combinedResults, seenIds, vectorResults) ==
    IF vectorResults = <<>> THEN combinedResults
    ELSE LET vr == Head(vectorResults)
         IN  IF vr.id \notin seenIds
             THEN combine(Append(combinedResults, vr), seenIds \cup {vr.id},
                          Tail(vectorResults))
             ELSE combine(combinedResults, seenIds, Tail(vectorResults))

\* a merge that appends every vector row
mergeResults_noSeenIds(textResults, vectorResults) ==
    textResults \o vectorResults

\* "Merge and deduplicate results"
mergeResults(textResults, vectorResults) ==
    combine(textResults, idsOf(textResults), vectorResults)

SearchResponse(status, colleges, mode) ==
    [status |-> status, colleges |-> colleges, total |-> Len(colleges), mode |-> mode]

\* the catch of the handler: status 500, no colleges
SearchError == SearchResponse(500, <<>>, "error")

SearchIdle ==
    search = [pc |-> "idle", limit |-> 0, mode |-> "hybrid", textResults |-> <<>>,
              vectorResults |-> <<>>, vector |-> "not run", response |-> None]

\* the parameters are read; text and hybrid mode start with the text query
SearchBegin ==
    /\ search.pc = "idle"
    /\ \E param \in LimitParams, mode \in SearchModes :
          search' = [search EXCEPT !.limit = limitOf(param), !.mode = mode,
                                   !.pc = IF mode = "vector" THEN "vector only"
                                          ELSE "text query"]
    /\ UNCHANGED <<lifeVars, outcomeVars, endpointVars, classifierVars, lookupVars,
                   pageVars>>

\* the text query throws (always so for LIMIT with a negative number)
TextQueryFails ==
    /\ search.pc = "text query"
    /\ search' = [search EXCEPT !.pc = "done", !.response = SearchError]
    /\ UNCHANGED <<lifeVars, outcomeVars, endpointVars, classifierVars, lookupVars,
                   pageVars>>

\* the text query returns; enough rows, or text mode: they are the answer
TextQuery ==
    /\ search.pc = "text query"
    /\ search.limit >= 0
    /\ \E textResults \in QueryResults(search.limit, "text_score") :
          IF search.mode = "text" \/ Len(textResults) >= search.limit
          THEN search' = [search EXCEPT !.pc = "done", !.textResults = textResults,
                             !.response = SearchResponse(200, textResults, "text")]
          ELSE search' = [search EXCEPT !.pc = "vector query",
                                        !.textResults = textResults]
    /\ UNCHANGED <<lifeVars, outcomeVars, endpointVars, classifierVars, lookupVars,
                   pageVars>>

\* hybrid mode: the embedding and the vector query succeed, results are merged
VectorQuery ==
    /\ search.pc = "vector query"
    /\ \E vectorResults \in QueryResults(search.limit, "distance") :
          LET combinedResults == mergeResults(search.textResults, vectorResults)
              results == slice(combinedResults, search.limit)
          IN  search' = [search EXCEPT !.pc = "done", !.vector = "ok",
                            !.vectorResults = vectorResults,
                            !.response = SearchResponse(200, results, "hybrid")]
    /\ UNCHANGED <<lifeVars, outcomeVars, endpointVars, classifierVars, lookupVars,
                   pageVars>>

\* hybrid mode: generateEmbedding or the vector query throws
VectorFails ==
    /\ search.pc = "vector query"
    /\ search' = [search EXCEPT !.pc = "done", !.vector = "failed",
                     !.response = SearchResponse(200, search.textResults, "text")]
    /\ UNCHANGED <<lifeVars, outcomeVars, endpointVars, classifierVars, lookupVars,
                   pageVars>>

\* vector mode
VectorOnly ==
    /\ search.pc = "vector only"
    /\ \/ /\ search.limit >= 0
          /\ \E rows \in QueryResults(search.limit, "distance") :
                search' = [search EXCEPT !.pc = "done", !.vector = "ok",
                              !.vectorResults = rows,
                              !.response = SearchResponse(200, rows, "vector")]
       \/ search' = [search EXCEPT !.pc = "done", !.vector = "failed",
                                   !.response = SearchError]
    /\ UNCHANGED <<lifeVars, outcomeVars, endpointVars, classifierVars, lookupVars,
                   pageVars>>

NextSearch ==
    SearchBegin \/ TextQueryFails \/ TextQuery \/ VectorQuery \/ VectorFails \/ VectorOnly

-----------------------------------------------------------------------------
(* getCareerDataFromAI called twice in a row, the provider answering: which *)
(* lookup a returned profile was resolved for.  A profile is marked with the *)
(* arguments of the call that asked the provider for it.                    *)

LookupTexts == {"Nurse", "nurse", "nurse-nv"}
LookupStates == {Undefined, "", "NV", "nv", "NV-Las"}
LookupCities == {Undefined, "", "Reno", "Vegas", "Las-Vegas"}

\* the arguments (careerText, state, city) of a call
LookupArgs == [careerText : LookupTexts, state : LookupStates, city : LookupCities]

keyOf(args) == cacheKey(args.careerText, args.state, args.city)

LookupKeys == {keyOf(args) : args \in LookupArgs}

LookupIdle ==
    lookups = [pc |-> 0, args |-> <<>>, returned |-> <<>>,
               cache |-> [k \in LookupKeys |-> None]]

\* the two calls to come
InitLookups ==
    \E first, second \in LookupArgs :
        lookups = [pc |-> 1, args |-> <<first, second>>, returned |-> <<>>,
                   cache |-> [k \in LookupKeys |-> None]]

\* one call: the cached profile if the key is present, else the provider's
\* profile for these arguments, which is stored under the key
CareerLookup ==
    /\ lookups.pc \in {1, 2}
    /\ LET args == lookups.args[lookups.pc]
           key == keyOf(args)
       IN  IF lookups.cache[key] # None
           THEN lookups' = [lookups EXCEPT
                               !.pc = @ + 1,
                               !.returned = Append(@, lookups.cache[key])]
           ELSE lookups' = [lookups EXCEPT
                               !.pc = @ + 1,
                               !.returned = Append(@, args),
                               !.cache = [@ EXCEPT ![key] = args]]
    /\ UNCHANGED <<lifeVars, outcomeVars, endpointVars, classifierVars, searchVars,
                   pageVars>>

NextLookup == CareerLookup

-----------------------------------------------------------------------------
(* The comparison page (page.tsx), at step "search": the selected colleges, *)
(* the life paths on display, and the life-path request in flight.  A       *)
(* college is its id; a list of life paths is the list of the colleges it   *)
(* was computed for.  A handler and the effect React runs after it are one  *)
(* step.                                                                    *)

MaxPageColleges == 3
MaxCompared == 4

PageColleges == 1 .. MaxPageColleges

\* msg.collegeData of a chat message: one or two colleges
ChatLists ==
    {<<c>> : c \in PageColleges}
    \cup {l \in {<<c, d>> : c \in PageColleges, d \in PageColleges} : l[1] # l[2]}

\* selectedColleges.filter((c) => c.id !== collegeId), and the chat's filter
RECURSIVE filterOut(_, _)
filterOut(colleges, ids) ==
    IF colleges = <<>> THEN <<>>
    ELSE IF Head(colleges) \in ids THEN filterOut(Tail(colleges), ids)
    ELSE <<Head(colleges)>> \o filterOut(Tail(colleges), ids)

\* the ids of a list of colleges
idsOfList(colleges) == {colleges[i] : i \in DOMAIN colleges}

PageIdle ==
    page = [selectedColleges |-> <<>>, lifePaths |-> <<>>, pathsLoading |-> FALSE,
            pending |-> <<>>]

\* the effect on [step, selectedColleges.length], run on the state the handler
\* left: generateLifePaths() if colleges are selected, no paths are shown and
\* no request is loading
autoGenerate(before, after) ==
    IF /\ Len(after.selectedColleges) # Len(before.selectedColleges)
       /\ Len(after.selectedColleges) > 0
       /\ Len(after.lifePaths) = 0
       /\ ~after.pathsLoading
    THEN [after EXCEPT !.pathsLoading = TRUE,
                       !.pending = Append(@, after.selectedColleges)]
    ELSE after

addToComparison(newCollege) ==
    /\ Len(page.selectedColleges) < MaxCompared
    /\ newCollege \notin idsOfList(page.selectedColleges)
    /\ page' = autoGenerate(page,
                  [page EXCEPT !.selectedColleges = Append(@, newCollege),
                               !.lifePaths = <<>>])
    /\ UNCHANGED <<lifeVars, outcomeVars, endpointVars, classifierVars, searchVars,
                   lookupVars>>

removeFromComparison(collegeId) ==
    /\ collegeId \in idsOfList(page.selectedColleges)
    /\ page' = autoGenerate(page,
                  [page EXCEPT !.selectedColleges = filterOut(@, {collegeId}),
                               !.lifePaths = <<>>])
    /\ UNCHANGED <<lifeVars, outcomeVars, endpointVars, classifierVars, searchVars,
                   lookupVars>>

\* the chat's "Add to Comparison": the colleges not yet selected are appended,
\* the list is cut to four; lifePaths is not touched
addFromChat(collegeData) ==
    LET newColleges == filterOut(collegeData, idsOfList(page.selectedColleges))
    IN  /\ Len(newColleges) > 0
        /\ page' = autoGenerate(page,
                      [page EXCEPT !.selectedColleges =
                          SubSeq(@ \o newColleges, 1,
                                 Min(MaxCompared, Len(@ \o newColleges)))])
        /\ UNCHANGED <<lifeVars, outcomeVars, endpointVars, classifierVars, searchVars,
                       lookupVars>>

\* the response of the request in flight arrives with data.paths
pathsArrive ==
    /\ page.pending # <<>>
    /\ page' = [page EXCEPT !.lifePaths = Head(page.pending),
                            !.pathsLoading = FALSE,
                            !.pending = Tail(@)]
    /\ UNCHANGED <<lifeVars, outcomeVars, endpointVars, classifierVars, searchVars,
                   lookupVars>>

\* the request fails, or its answer has no paths
pathsFail ==
    /\ page.pending # <<>>
    /\ page' = [page EXCEPT !.pathsLoading = FALSE, !.pending = Tail(@)]
    /\ UNCHANGED <<lifeVars, outcomeVars, endpointVars, classifierVars, searchVars,
                   lookupVars>>

NextPage ==
    \/ \E newCollege \in PageColleges : addToComparison(newCollege)
    \/ \E collegeId \in PageColleges : removeFromComparison(collegeId)
    \/ \E collegeData \in ChatLists : addFromChat(collegeData)
    \/ pathsArrive
    \/ pathsFail

-----------------------------------------------------------------------------
(* Specifications                                                          *)

\* nothing else is running
OtherIdle == ClassifierIdle /\ SearchIdle /\ LookupIdle /\ PageIdle

\* one call of generateLifePath
LifeCall == InitLife /\ OutcomeIdle /\ EndpointIdle /\ OtherIdle
SpecLife == LifeCall /\ [][NextLife]_vars

\* one request to the outcomes endpoint
OutcomeCall == LifeIdle /\ InitOutcome /\ EndpointIdle /\ OtherIdle
SpecOutcome == OutcomeCall /\ [][NextOutcome]_vars

\* calls of generateLifePath that differ in the salary band of the career only
SalaryBands ==
    [medianSalary : {45000, 45001},
     salaryLow : {35000, 35003},
     salaryHigh : {60000, 60007},
     requiresGradSchool : {TRUE},
     gradSchoolYears : {0, 2},
     gradCostPerYear : {50000},
     residencyYears : {0, 3},
     residencySalary : {60000}]
CurveCall ==
    /\ OutcomeIdle /\ EndpointIdle /\ OtherIdle
    /\ careerData \in SalaryBands
    /\ aid = Unread /\ advisory = Unread
    /\ pc = "undergrad" /\ year = 1
    /\ cumulativeDebt = 0 /\ cumulativeEarnings = 0 /\ accumulatedSavings = 0
    /\ peakDebt = 0 /\ breakEvenAge = Null
    /\ timeline = <<>> /\ summary = None
    /\ college = [state |-> "NV", tuitionInState |-> 8000, tuitionOutOfState |-> Null,
                  roomBoardOnCampus |-> 0]
    /\ profile = [homeState |-> "nv", hasScholarships |-> FALSE, scholarshipAmount |-> 20000,
                  currentAge |-> Null]
SpecCurve == CurveCall /\ [][NextLife]_vars

\* calls of generateLifePath over salary bands in and out of order: the median
\* at 0.9 x low, at high, between them, below and above
WideBands ==
    [medianSalary : {20000, 31500, 45000, 45001, 60000, 70000},
     salaryLow : {35000, 50000},
     salaryHigh : {60000, 60007},
     requiresGradSchool : {TRUE},
     gradSchoolYears : {0, 2},
     gradCostPerYear : {50000},
     residencyYears : {0, 3},
     residencySalary : {60000}]
BandCall ==
    /\ OutcomeIdle /\ EndpointIdle /\ OtherIdle
    /\ careerData \in WideBands
    /\ aid = Unread /\ advisory = Unread
    /\ pc = "undergrad" /\ year = 1
    /\ cumulativeDebt = 0 /\ cumulativeEarnings = 0 /\ accumulatedSavings = 0
    /\ peakDebt = 0 /\ breakEvenAge = Null
    /\ timeline = <<>> /\ summary = None
    /\ college = [state |-> "NV", tuitionInState |-> 8000, tuitionOutOfState |-> Null,
                  roomBoardOnCampus |-> 0]
    /\ profile \in [homeState : {"nv"}, hasScholarships : {FALSE},
                     scholarshipAmount : {20000}, currentAge : {Null, 14}]
SpecBands == BandCall /\ [][NextLife]_vars

\* the process serving life-path requests
EndpointStart == LifeIdle /\ OutcomeIdle /\ EndpointIdle /\ OtherIdle
SpecEndpoint == EndpointStart /\ [][NextEndpoint]_vars

\* one call of matchCareerFromText
ClassifierCall ==
    /\ LifeIdle /\ OutcomeIdle /\ EndpointIdle /\ SearchIdle /\ LookupIdle /\ PageIdle
    /\ InitClassifier
SpecClassifier == ClassifierCall /\ [][NextClassifier]_vars

\* one request to the search endpoint
SearchStart == LifeIdle /\ OutcomeIdle /\ EndpointIdle /\ OtherIdle
SpecSearch == SearchStart /\ [][NextSearch]_vars

\* two calls of getCareerDataFromAI, one after the other
LookupStart ==
    /\ LifeIdle /\ OutcomeIdle /\ EndpointIdle /\ ClassifierIdle /\ SearchIdle
    /\ PageIdle
    /\ InitLookups
SpecLookup == LookupStart /\ [][NextLookup]_vars

\* the comparison page, nothing selected yet
PageStart == LifeIdle /\ OutcomeIdle /\ EndpointIdle /\ OtherIdle
SpecPage == PageStart /\ [][NextPage]_vars

Init ==
    \/ LifeCall \/ OutcomeCall \/ EndpointStart
    \/ ClassifierCall \/ SearchStart \/ LookupStart \/ PageStart
Next ==
    \/ NextLife \/ NextOutcome \/ NextEndpoint
    \/ NextClassifier \/ NextSearch \/ NextLookup \/ NextPage
Spec == Init /\ [][Next]_vars

-----------------------------------------------------------------------------
(* Properties of generateLifePath, under SpecLife                          *)

lastYear == timeline[Len(timeline)]
Snapshots == 1..Len(timeline)

RECURSIVE MaxDebt(_)
MaxDebt(tl) == IF tl = <<>> THEN 0 ELSE Max(Head(tl).debt, MaxDebt(Tail(tl)))

CountPhase(ph) == Cardinality({i \in Snapshots : timeline[i].phase = ph})

\* the age of the first snapshot that reports a positive net worth, Null if none does
FirstPositiveAge ==
    LET pos == {i \in Snapshots : timeline[i].netWorth > 0}
    IN  IF pos = {} THEN Null
        ELSE timeline[CHOOSE i \in pos : \A j \in pos : i <= j].age

\* C1: every snapshot reports netWorth = accumulatedSavings - debt exactly, the debt
\* being the one the snapshot reports and the savings the running savings (0 until
\* the career starts).  Stated of the snapshot each year appends.
C1_NetWorthIdentity ==
    timeline # <<>> =>
        Cents(lastYear.netWorth) = accumulatedSavings - Cents(lastYear.debt)

\* C2: the summary's peakDebt is the largest debt any snapshot of the timeline reports.
C2_PeakDebtIsMax ==
    pc = "done" => summary.peakDebt = MaxDebt(timeline)

\* C3: breakEvenAge is the age of the first snapshot, of any phase, that reports
\* netWorth > 0, and null exactly when no snapshot does.
C3_BreakEvenFirstCrossing ==
    breakEvenAge = FirstPositiveAge

\* C4: the debt is never negative: neither the running debt carried into the next
\* year nor the debt a snapshot reports.
C4_DebtNeverNegative ==
    /\ cumulativeDebt >= 0
    /\ \A i \in Snapshots : timeline[i].debt >= 0

\* C5: the year indices of a timeline are 1, 2, 3, ... in order, without gap or repeat.
C5_YearIndicesContiguous ==
    \A i \in Snapshots : timeline[i].year = i

\* C6: every snapshot has age = startAge + year - 1.
C6_AgeFollowsYear ==
    \A i \in Snapshots : timeline[i].age = startAge + timeline[i].year - 1

\* C7: with careerStartAge the age right after the last schooling or training year
\* of the timeline, the Career phase has max(0, (startAge + 17) - careerStartAge + 1)
\* snapshots; it ends at age startAge + 17 when training takes at most 17 years and
\* is absent when training takes more.
C7_CareerLength ==
    pc = "done" =>
        LET training == Len(timeline) - CountPhase("Career")
            careerStart == startAge + training
        IN  /\ CountPhase("Career") = Max(0, (startAge + HorizonYears) - careerStart + 1)
            /\ training <= HorizonYears =>
                  /\ lastYear.phase = "Career"
                  /\ lastYear.age = startAge + HorizonYears
            /\ training > HorizonYears => CountPhase("Career") = 0

\* C8: the timeline has exactly gradSchoolYears Grad School snapshots (none when it
\* is 0), and a grad cost counted in totalDebt and totalCost comes with them.
C8_GradSchoolSnapshots ==
    pc = "done" =>
        /\ CountPhase("Grad School") = careerData.gradSchoolYears
        /\ summary.costBreakdown.gradSchoolCost > 0 => CountPhase("Grad School") > 0

C10_About(x, y) == x - y <= 100 /\ y - x <= 100

\* C10 as stated: net price 8000 a year for the bracket, median salary 45000, age 18
\* give a debt of about 19200 after year 4 and a break-even age of at most 25.  The
\* scenario is read in its favour: a career without grad school or residency years
\* and a student without scholarship.
C10_NetPriceScenario ==
    (/\ pc = "done"
     /\ aid.netPriceByIncome = 8000
     /\ careerData.medianSalary = 45000
     /\ careerData.gradSchoolYears = 0
     /\ careerData.residencyYears = 0
     /\ ~profile.hasScholarships
     /\ startAge = 18)
    => /\ C10_About(timeline[4].debt, 19200)
       /\ breakEvenAge # Null
       /\ breakEvenAge <= 25

C10_StickerCase ==
    /\ stickerPriceWithRB = 8000
    /\ ~profile.hasScholarships
    /\ careerData.medianSalary = 45000
    /\ careerData.salaryLow = 35000
    /\ careerData.gradSchoolYears = 0
    /\ careerData.residencyYears = 0
    /\ startAge = 18

\* C10 amended: a sticker price (tuition plus room and board) of 8000 a year, no
\* scholarship, a salary band of low 35000 and median 45000 with no grad school or
\* residency years, age 18: the debt after year 4 is 19200 (60% of 4 x 8000) whatever
\* the net price of the bracket, and the break-even age is non-null and at most 25.
C10_StickerScenario ==
    (pc = "done" /\ C10_StickerCase)
    => /\ timeline[4].debt = 19200
       /\ breakEvenAge # Null
       /\ breakEvenAge <= 25

C10_Witness ==
    /\ pc = "done"
    /\ C10_StickerCase
    /\ aid.netPriceByIncome # 8000
    /\ timeline[4].debt = 19200
    /\ breakEvenAge = 25

\* the student's home state is the college's state, whatever the case of the letters
C11_SameState ==
    \/ profile.homeState = college.state
    \/ profile.homeState = "nv" /\ college.state = "NV"

\* C11 as stated: the tuition is the in-state field for a student of the college's
\* state and the out-of-state field otherwise; a null applicable field is 15000
\* (in-state) or 30000 (out-of-state), a null room and board 15000.  Read off the
\* two four-year costs of the summary.
C11_OwnFieldOrDefault ==
    pc = "done" =>
        LET c == college
            tuition == IF C11_SameState
                       THEN (IF c.tuitionInState # Null THEN c.tuitionInState ELSE 15000)
                       ELSE (IF c.tuitionOutOfState # Null THEN c.tuitionOutOfState ELSE 30000)
            roomBoard == IF c.roomBoardOnCampus # Null THEN c.roomBoardOnCampus ELSE 15000
        IN  /\ summary.costBreakdown.undergradTuitionOnly = 4 * tuition
            /\ summary.costBreakdown.undergradWithRoomBoard = 4 * (tuition + roomBoard)

\* C11 amended: a null applicable tuition field is replaced by the other tuition
\* field when that one is not null, and by 15000 (in-state) or 30000 (out-of-state)
\* only when both are null; a null room and board is 15000.
C11_OtherFieldThenDefault ==
    pc = "done" =>
        LET c == college
            own == IF C11_SameState THEN c.tuitionInState ELSE c.tuitionOutOfState
            other == IF C11_SameState THEN c.tuitionOutOfState ELSE c.tuitionInState
            tuition == IF own # Null THEN own
                       ELSE IF other # Null THEN other
                       ELSE IF C11_SameState THEN 15000 ELSE 30000
            roomBoard == IF c.roomBoardOnCampus # Null THEN c.roomBoardOnCampus ELSE 15000
        IN  /\ summary.costBreakdown.undergradTuitionOnly = 4 * tuition
            /\ summary.costBreakdown.undergradWithRoomBoard = 4 * (tuition + roomBoard)

\* an in-state student (home state in lower case) at a college that reports only an
\* out-of-state tuition
C11_Witness ==
    /\ pc = "done"
    /\ profile.homeState = "nv" /\ college.state = "NV"
    /\ college.tuitionInState = Null
    /\ college.tuitionOutOfState = 50000
    /\ college.roomBoardOnCampus = Null
    /\ summary.costBreakdown.undergradTuitionOnly = 200000
    /\ summary.costBreakdown.undergradWithRoomBoard = 260000

\* C12: the summary's aidAdjustedUndergrad is 4 x (netPriceByIncome[bracket] ??
\* avgNetPrice) whenever one of the two is present, a price of 0 included, and null
\* only when both are absent.
C12_AidAdjustedUndergrad ==
    pc = "done" =>
        LET price == IF aid.netPriceByIncome # Null THEN aid.netPriceByIncome
                     ELSE aid.avgNetPrice
        IN  summary.costBreakdown.aidAdjustedUndergrad =
               IF price # Null THEN 4 * price ELSE Null

\* C13: the summary's netWorthAt35 is the netWorth of the last snapshot of the
\* timeline, also when that net worth is exactly 0.
C13_NetWorthAtHorizon ==
    pc = "done" => summary.netWorthAt35 = lastYear.netWorth

\* the conditions of the four warnings, from the inputs of the call
C14_Competitive ==
    /\ advisory.title = "Neurosurgeon"
    /\ advisory.matchedMajor \notin {"health_premed", "biology"}
C14_HighDebt == 2 * totalDebt > 3 * careerData.medianSalary
C14_Variance == advisory.matchedMajor \in {"arts", "humanities"}
C14_Note == advisory.notes # Undefined

\* C14: the warning is chosen by strict priority: the competitiveness warning for a
\* medical career with a major that is neither health_premed nor biology; else the
\* debt-ratio warning when the total debt exceeds 1.5 x the career's median salary;
\* else the earnings-variance warning for an arts or humanities major; else the
\* provider's note; else none.
C14_WarningPriority ==
    pc = "done" =>
        /\ C14_Competitive => summary.warning = "Pre-med track is very competitive"
        /\ (~C14_Competitive /\ C14_HighDebt)
              => summary.warning = "High debt-to-earnings ratio"
        /\ (~C14_Competitive /\ ~C14_HighDebt /\ C14_Variance)
              => summary.warning = "Earnings in this field vary widely"
        /\ (~C14_Competitive /\ ~C14_HighDebt /\ ~C14_Variance /\ C14_Note)
              => summary.warning = advisory.notes
        /\ (~C14_Competitive /\ ~C14_HighDebt /\ ~C14_Variance /\ ~C14_Note)
              => summary.warning = Undefined

\* all four conditions hold at once and the first warning is the one returned
C14_Witness ==
    /\ pc = "done"
    /\ C14_Competitive /\ C14_HighDebt /\ C14_Variance /\ C14_Note
    /\ summary.warning = "Pre-med track is very competitive"

\* the Career snapshots of the timeline, in order
C15_CareerSnapshots == {i \in Snapshots : timeline[i].phase = "Career"}
C15_Experience(i) == Cardinality({j \in C15_CareerSnapshots : j < i})

\* the curve of the claim at e years of experience, in dollars; amounts inside in cents
C15_Curve(e) ==
    LET low9 == (Cents(careerData.salaryLow) * 9) \div 10
        median == Cents(careerData.medianSalary)
        high == Cents(careerData.salaryHigh)
        mid == MulFrac(low9 + median, 1, 2)
        top == median + MulFrac(high - median, 6, 10)
    IN  IF e = 0 THEN Round(low9)
        ELSE IF e <= 2 THEN Round(low9 + MulFrac(mid - low9, e, 2))
        ELSE IF e <= 5 THEN Round(mid + MulFrac(median - mid, e - 2, 3))
        ELSE IF e <= 10 THEN Round(median + MulFrac(top - median, e - 5, 5))
        ELSE Round(top + MulFrac(MulFrac(high - top, 1, 2), e - 10, 10))

\* C15: the salary of a career year with e years of experience is 0.9 x low at
\* e = 0, rises linearly to the midpoint of 0.9 x low and the median at e = 2, to
\* the median at e = 5, to median + 0.6 x (high - median) at e = 10, and then covers
\* half of the remaining gap to high over the next ten years; each value is rounded
\* to a whole dollar.
C15_SalaryCurve ==
    \A i \in C15_CareerSnapshots :
        timeline[i].earnings = C15_Curve(C15_Experience(i))

\* a band of uneven amounts, followed past the tenth year of experience
C15_Witness ==
    /\ careerData.salaryLow = 35003
    /\ careerData.medianSalary = 45001
    /\ careerData.salaryHigh = 60007
    /\ \E i \in C15_CareerSnapshots :
          /\ C15_Experience(i) = 11
          /\ timeline[i].earnings = 54305
          /\ timeline[i - 11].earnings = 31503
          /\ timeline[i - 9].earnings = 38252
          /\ timeline[i - 6].earnings = 45001
          /\ timeline[i - 1].earnings = 54005

\* C16: in the undergrad years 1 to 4 the debt a snapshot reports never decreases
\* from one year to the next: it grows by 0.6 x the yearly sticker price (tuition
\* plus room and board) each year, from the first year on.
C16_UndergradDebtMonotonic ==
    \A i \in Snapshots :
        i <= 4 =>
            /\ timeline[i].phase = "College"
            /\ timeline[i].debt = Round(MulFrac(Cents(i * stickerPriceWithRB), 6, 10))
            /\ i > 1 => timeline[i].debt >= timeline[i - 1].debt

\* four undergrad years at the default sticker price of an in-state student, the
\* scholarship leaving the yearly growth as it is
C16_Witness ==
    /\ Len(timeline) >= 4
    /\ stickerPriceWithRB = 30000
    /\ profile.hasScholarships
    /\ timeline[1].debt = 18000 /\ timeline[2].debt = 36000
    /\ timeline[3].debt = 54000 /\ timeline[4].debt = 72000

-----------------------------------------------------------------------------
(* Properties of the outcomes POST, under SpecOutcome                      *)

-----------------------------------------------------------------------------
(* Properties of the life-path POST, under SpecEndpoint                    *)

Answered(r) == requests[r].pc = "done"

\* C17: a request answered with life paths gets exactly one LifePathResult per
\* college of the request, in the order of the request, whatever the order or the
\* subset of rows the store returned.
C17_OnePathPerCollegeInOrder ==
    \A r \in Requests :
        (Answered(r) /\ requests[r].response.status = 200) =>
            LET asked == requests[r].body.colleges
                paths == requests[r].response.paths
            IN  /\ Len(paths) = Len(asked)
                /\ \A i \in 1..Len(paths) : i <= Len(asked) => paths[i].college = asked[i]

\* C18: a request whose income bracket is not one of the five canonical strings,
\* or whose college list is empty, is rejected: the caller gets an error, not a
\* success response with life paths, and no college is simulated.
C18_InvalidInputRejected ==
    \A r \in Requests :
        LET body == requests[r].body
        IN  (/\ Answered(r)
             /\ \/ body.colleges = <<>>
                \/ body.profile.incomeBracket \notin IncomeBrackets)
            => requests[r].response.status # 200


C20_CacheEntryKept ==
    [][/\ \A k \in CacheKeys :
             careerDataCache[k] # None => careerDataCache'[k] = careerDataCache[k]
       /\ \A r \in Requests :
             (/\ requests[r].pc = "query"
              /\ requests'[r].pc \in {"paths", "provider"}
              /\ careerDataCache[requests'[r].cacheKey] # None)
             => /\ requests'[r].pc = "paths"
                /\ requests'[r].careerData = careerDataCache[requests'[r].cacheKey]
                /\ requests'[r].provider = "not called"]_vars

\* C21: two requests that resolve the same key at the same time (both found it
\* absent and both got an answer from the provider) receive the same profile, and
\* that profile is the one the cache keeps for later lookups.
C21_ConcurrentLookupsAgree ==
    \A r1, r2 \in Requests :
        (/\ r1 # r2
         /\ requests[r1].provider = "answered"
         /\ requests[r2].provider = "answered"
         /\ requests[r1].cacheKey = requests[r2].cacheKey)
        => /\ requests[r1].careerData = requests[r2].careerData
           /\ careerDataCache[requests[r1].cacheKey] = requests[r1].careerData

\* the request was answered with life paths computed from the profile the cache
\* holds for the request's key
C22_FromCache(r) ==
    /\ Answered(r)
    /\ requests[r].response.status = 200
    /\ requests[r].careerData = careerDataCache[requests[r].cacheKey]

\* C22: the LifePathResult of a college does not depend on the colleges requested
\* with it nor on its position: two requests of the same profile that both contain
\* a college, each served from the cache, get the same result for that college.
C22_IndependentOfCompany ==
    \A r1, r2 \in Requests :
        (/\ C22_FromCache(r1) /\ C22_FromCache(r2)
         /\ requests[r1].body.profile = requests[r2].body.profile)
        => LET paths1 == requests[r1].response.paths
               paths2 == requests[r2].response.paths
           IN  \A i \in DOMAIN paths1, j \in DOMAIN paths2 :
                  paths1[i].college = paths2[j].college => paths1[i] = paths2[j]

\* C23: the classifier returns the tag of the first matching rule, and every
\* keyword phrase of a rule, given as the whole text, classifies to that
\* rule's own tag and not to the tag of another rule whose keyword it contains
C23_PhraseToOwnRule ==
    category # Undefined =>
        /\ category = matchCareerFromText(goalText)
        /\ \A i \in DOMAIN patterns :
              goalText \in patterns[i].keywords => category = patterns[i].category

\* the rows of the vector query whose college the text query did not return
C24_NewRows ==
    SelectSeq(search.vectorResults,
              LAMBDA vr : vr.id \notin idsOf(search.textResults))

\* C24: in hybrid mode the text query runs first; with at least limit rows
\* the answer is those rows; otherwise the answer is the text rows followed by
\* the vector rows of colleges not already present, cut to limit, with no
\* college twice; if the vector search fails the answer is the text rows,
\* with status 200
C24_HybridSearch ==
    (search.mode = "hybrid" /\ search.response # None /\ search.response # SearchError) =>
        LET colleges == search.response.colleges
            textResults == search.textResults
        IN  /\ search.response.status = 200
            /\ Len(textResults) >= search.limit =>
                  search.vector = "not run" /\ colleges = textResults
            /\ Len(textResults) < search.limit => search.vector # "not run"
            /\ search.vector = "failed" => colleges = textResults
            /\ search.vector = "ok" =>
                  /\ colleges = slice(textResults \o C24_NewRows, search.limit)
                  /\ Len(colleges) <= search.limit
            /\ \A i, j \in DOMAIN colleges : i # j => colleges[i].id # colleges[j].id

\* a hybrid answer where a vector row was skipped as already present, another
\* was appended, and the merged list was cut
C24_Witness ==
    /\ search.mode = "hybrid" /\ search.vector = "ok" /\ search.response # None
    /\ search.textResults # <<>>
    /\ idsOf(search.vectorResults) \cap idsOf(search.textResults) # {}
    /\ Len(search.textResults \o C24_NewRows) > search.limit
    /\ Len(search.response.colleges) > Len(search.textResults)

\* the two calls are lookups of the same thing: same careerText up to letter
\* case, same state and same city, an absent one and "" being the same
C25_SameLookup(a, b) ==
    /\ toLowerCase(a.careerText) = toLowerCase(b.careerText)
    /\ OrEmpty(a.state) = OrEmpty(b.state)
    /\ OrEmpty(a.city) = OrEmpty(b.city)

C26_BandInOrder ==
    /\ 9 * careerData.salaryLow <= 10 * careerData.medianSalary
    /\ careerData.medianSalary <= careerData.salaryHigh

\* C26: for a career profile with 0.9 x low <= median <= high the salary of
\* successive Career years never decreases and never exceeds high
C26_SalaryNonDecreasing ==
    (careerData # None /\ C26_BandInOrder) =>
        \A i \in C15_CareerSnapshots :
            /\ timeline[i].earnings <= careerData.salaryHigh
            /\ \A j \in C15_CareerSnapshots :
                  i < j => timeline[i].earnings <= timeline[j].earnings

\* a finished call whose median sits at 0.9 x low, followed past the tenth
\* year of experience, the salary having risen on the way
C26_Witness ==
    /\ careerData # None /\ C26_BandInOrder /\ summary # None
    /\ 9 * careerData.salaryLow = 10 * careerData.medianSalary
    /\ \E i \in C15_CareerSnapshots :
          /\ C15_Experience(i) >= 12
          /\ timeline[i].earnings > timeline[i - 1].earnings
          /\ timeline[i - 7].earnings = timeline[i - 12].earnings

\* C27: while no life-path request is pending, the life paths on display were
\* computed for exactly the colleges now selected
C27_DisplayedPathsCurrent ==
    (~page.pathsLoading /\ page.pending = <<>> /\ page.lifePaths # <<>>)
        => page.lifePaths = page.selectedColleges

=============================================================================
